---- MODULE Spec2Model ----
(***************************************************************************)
(* Model of src/model.py: the strategy models of trading-server.           *)
(*                                                                         *)
(*   - EMACrossTestingOnly.run: the EMA crossover detector (Python list    *)
(*     indexing with negative-index wraparound, None comparisons raising   *)
(*     TypeError, the IndexError handler that calls sys.exit).             *)
(*   - EQTrendFollowing.get_required_timeframes: the timeframe resolver,   *)
(*     with timeframe codes as character sequences that are parsed and     *)
(*     re-formatted the way the code does.                                 *)
(***************************************************************************)
EXTENDS Integers, Sequences, FiniteSets, TLC

(***************************************************************************)
(* Bounds of the model.                                                    *)
(***************************************************************************)
\* longest bar series handed to run
MaxBars == 4
\* indicator values are None or 1..MaxInd
MaxInd == 2
\* longest timeframe list handed to get_required_timeframes
MaxList == 2

VARIABLES
    \* ---- EMACrossTestingOnly.run ----
    timeframe,  \* argument: the timeframe under evaluation
    features,   \* list(zip(index, open, EMA10, EMA20)): the bar series
    i,          \* loop variable of the scan (0-based, as in the code)
    longs,      \* {'price': [], 'time': []}
    shorts,     \* {'price': [], 'time': []}
    pc,         \* position of run: "feed", "scan", "emit", "done"
    outcome,    \* how run ended: "running", "None", "Signal",
                \* "IndexError", "TypeError" (raised), "SystemExit"
    emitted,    \* the SignalEvents run returned (at most one)
    \* ---- EQTrendFollowing.get_required_timeframes ----
    timeframes, \* argument: the list, amended in place when not result
    result,     \* argument: the mode flag
    orig,       \* the list as the caller passed it (for the frame claims)
    to_add,     \* local: the candidates
    k,          \* position of the for loop (0-based)
    tfpc,       \* "build", "loop", "finish", "done"
    tfret       \* returned value: <<>> for no value (None), <<list>> otherwise

runVars == <<timeframe, features, i, longs, shorts, pc, outcome, emitted>>
tfVars == <<timeframes, result, orig, to_add, k, tfpc, tfret>>
vars == <<timeframe, features, i, longs, shorts, pc, outcome, emitted,
          timeframes, result, orig, to_add, k, tfpc, tfret>>

(***************************************************************************)
(* Python values.                                                          *)
(***************************************************************************)
\* None, as an indicator value (defined values are positive)
None == 0 - 1

\* Python's list index: k in -len..len-1 is in range, anything else raises
\* IndexError; a negative k counts from the end.
PyInRange(s, n) == (0 - Len(s)) <= n /\ n < Len(s)

PyIndex(s, n) == IF n >= 0 THEN s[n + 1] ELSE s[Len(s) + n + 1]

(***************************************************************************)
(* EMACrossTestingOnly: static configuration.                              *)
(***************************************************************************)
EMAName == "EMA Cross - Testing only"

EMAOperatingTimeframes == <<"1Min">>

SeqToSet(s) == {s[n] : n \in 1..Len(s)}

(***************************************************************************)
(* The bar series.  A bar is <<timestamp, open, EMA10, EMA20>>; the        *)
(* timestamp of a 1Min bar is its minute number, strictly increasing.      *)
(***************************************************************************)
Opens == {200, 400}

IndValues == {None} \cup (1..MaxInd)

\* The data layer appends one bar to the series before run is called.
Feed(o, f, sl) ==
    /\ pc = "feed"
    /\ Len(features) < MaxBars
    /\ features' = Append(features, <<Len(features) + 1, o, f, sl>>)
    /\ UNCHANGED <<timeframe, i, longs, shorts, pc, outcome, emitted>>
    /\ UNCHANGED tfVars

\* Timestamp.timestamp() of a minute-aligned bar, as int(): epoch seconds
EpochSeconds(ts) == ts * 60

(***************************************************************************)
(* One iteration of the scan, src/model.py:174-194.  What the body of the  *)
(* loop does at index n, in the order Python evaluates it.                 *)
(***************************************************************************)
ScanStep(feats, n) ==
    IF ~PyInRange(feats, n - 1) \/ ~PyInRange(feats, n - 2)
    THEN "IndexError"
    ELSE
        LET fast == PyIndex(feats, n)[3]
            slow == PyIndex(feats, n)[4]
            fast_minus_1 == PyIndex(feats, n - 1)[3]
            slow_minus_1 == PyIndex(feats, n - 1)[4]
            fast_minus_2 == PyIndex(feats, n - 2)[3]
            slow_minus_2 == PyIndex(feats, n - 2)[4]
            none1 == slow_minus_1 = None \/ fast_minus_1 = None
            none2 == slow_minus_2 = None \/ fast_minus_2 = None
        IN  IF fast = None \/ slow = None THEN "skip"
            ELSE IF slow > fast THEN
                \* slow_minus_1 < fast_minus_1 and slow_minus_2 < fast_minus_2
                IF none1 THEN "TypeError"
                ELSE IF ~(slow_minus_1 < fast_minus_1) THEN "skip"
                ELSE IF none2 THEN "TypeError"
                ELSE IF slow_minus_2 < fast_minus_2 THEN "short"
                ELSE "skip"
            ELSE IF slow < fast THEN
                \* slow_minus_1 > fast_minus_1 and slow_minus_2 > fast_minus_2
                IF none1 THEN "TypeError"
                ELSE IF ~(slow_minus_1 > fast_minus_1) THEN "skip"
                ELSE IF none2 THEN "TypeError"
                ELSE IF slow_minus_2 > fast_minus_2 THEN "long"
                ELSE "skip"
            ELSE "skip"

Candidates == [price |-> <<>>, time |-> <<>>]

Record(c, bar) == [price |-> Append(c.price, bar[2]),
                   time |-> Append(c.time, bar[1])]

(***************************************************************************)
(* The SignalEvent run builds, src/model.py:219-225.  Prices are in ticks; *)
(* entry_price * 0.005 is exact for the opens of the model.                *)
(***************************************************************************)
TakeProfit(direction, entry_price) ==
    IF direction = "LONG"
    THEN entry_price + (entry_price * 5) \div 1000
    ELSE entry_price - (entry_price * 5) \div 1000

SignalEvent(direction, entry_price, entry_ts, tf, data) ==
    [symbol |-> "XBTUSD",
     entry_ts |-> EpochSeconds(entry_ts),
     direction |-> direction,
     timeframe |-> tf,
     strategy |-> EMAName,
     venue |-> "BitMEX",
     entry_price |-> entry_price,
     entry_type |-> "Market",
     targets |-> << <<TakeProfit(direction, entry_price), 100>> >>,
     \* None, None, False, None: no stop price, no trailing metadata
     stop_price |-> <<>>,
     trail |-> <<>>,
     flag |-> FALSE,
     ident |-> <<>>,
     dataset |-> data]

(***************************************************************************)
(* run, src/model.py:145-234.                                              *)
(***************************************************************************)
\* 161-171: log, test the timeframe, zip the columns, empty candidates.
RunCall(tf) ==
    /\ pc = "feed"
    /\ timeframe' = tf
    /\ IF tf \in SeqToSet(EMAOperatingTimeframes)
       THEN /\ pc' = (IF Len(features) = 0 THEN "emit" ELSE "scan")
            /\ outcome' = outcome
       ELSE \* falls off the end of the function: returns None
            /\ pc' = "done"
            /\ outcome' = "None"
    /\ i' = 0
    /\ longs' = Candidates
    /\ shorts' = Candidates
    /\ UNCHANGED <<features, emitted>>
    /\ UNCHANGED tfVars

\* 174-194: one iteration of the for loop.
RunScan ==
    /\ pc = "scan"
    /\ LET step == ScanStep(features, i)
           bar == PyIndex(features, i)
       IN  /\ shorts' = (IF step = "short" THEN Record(shorts, bar) ELSE shorts)
           /\ longs' = (IF step = "long" THEN Record(longs, bar) ELSE longs)
           /\ IF step \in {"IndexError", "TypeError"}
              THEN \* raised outside the try block: run propagates it
                   /\ pc' = "done"
                   /\ outcome' = step
                   /\ i' = i
              ELSE /\ pc' = (IF i + 1 < Len(features) THEN "scan" ELSE "emit")
                   /\ outcome' = outcome
                   /\ i' = (IF i + 1 < Len(features) THEN i + 1 ELSE i)
    /\ UNCHANGED <<timeframe, features, emitted>>
    /\ UNCHANGED tfVars

\* 196-234: the decision on the last bar.
EmitOutcome(feats, ls, ss) ==
    IF ~(Len(ls.time) > 0 \/ Len(ss.time) > 0) THEN "None"
    \* longs['time'][-1] raises IndexError on an empty list; the handler
    \* prints and calls sys.exit(0)
    ELSE IF ~PyInRange(ls.time, 0 - 1) THEN "SystemExit"
    ELSE IF PyIndex(feats, 0 - 1)[1] = PyIndex(ls.time, 0 - 1) THEN "LONG"
    ELSE IF ~PyInRange(ss.time, 0 - 1) THEN "SystemExit"
    ELSE IF PyIndex(feats, 0 - 1)[1] = PyIndex(ss.time, 0 - 1) THEN "SHORT"
    ELSE "None"

RunEmit ==
    /\ pc = "emit"
    /\ LET e == EmitOutcome(features, longs, shorts)
       IN  /\ outcome' = (IF e \in {"LONG", "SHORT"} THEN "Signal" ELSE e)
           /\ emitted' =
                (IF e = "LONG"
                 THEN <<SignalEvent("LONG", PyIndex(longs.price, 0 - 1),
                                    PyIndex(longs.time, 0 - 1), timeframe,
                                    features)>>
                 ELSE IF e = "SHORT"
                 THEN <<SignalEvent("SHORT", PyIndex(shorts.price, 0 - 1),
                                    PyIndex(shorts.time, 0 - 1), timeframe,
                                    features)>>
                 ELSE emitted)
    /\ pc' = "done"
    /\ UNCHANGED <<timeframe, features, i, longs, shorts>>
    /\ UNCHANGED tfVars

(***************************************************************************)
(* Timeframe codes are strings: sequences of characters.                   *)
(***************************************************************************)
DigitChars == <<"0", "1", "2", "3", "4", "5", "6", "7", "8", "9">>

Letters == {"M", "i", "n", "H", "D"}

\* str.isdigit
IsDigit(c) == \E d \in 1..10 : DigitChars[d] = c

DigitValue(c) == (CHOOSE d \in 1..10 : DigitChars[d] = c) - 1

\* int(s) of a string of digits
RECURSIVE ParseInt(_)
ParseInt(ds) ==
    IF Len(ds) = 0 THEN 0
    ELSE ParseInt(SubSeq(ds, 1, Len(ds) - 1)) * 10 + DigitValue(ds[Len(ds)])

\* str(n) of a natural number
RECURSIVE Str(_)
Str(n) ==
    IF n < 10 THEN <<DigitChars[n + 1]>>
    ELSE Str(n \div 10) \o <<DigitChars[(n % 10) + 1]>>

\* re.findall("[a-zA-Z]+", s)[0]: the first maximal run of letters
RECURSIVE LetterRun(_)
LetterRun(s) ==
    IF Len(s) = 0 \/ Head(s) \notin Letters THEN <<>>
    ELSE <<Head(s)>> \o LetterRun(Tail(s))

RECURSIVE FirstLetters(_)
FirstLetters(s) ==
    IF Len(s) = 0 THEN <<>>
    ELSE IF Head(s) \in Letters THEN LetterRun(s)
    ELSE FirstLetters(Tail(s))

\* The string literals of the code.
tf1Min == <<"1", "M", "i", "n">>
tf3Min == <<"3", "M", "i", "n">>
tf5Min == <<"5", "M", "i", "n">>
tf15Min == <<"1", "5", "M", "i", "n">>
tf30Min == <<"3", "0", "M", "i", "n">>
tf1H == <<"1", "H">>
tf2H == <<"2", "H">>
tf3H == <<"3", "H">>
tf4H == <<"4", "H">>
tf6H == <<"6", "H">>
tf8H == <<"8", "H">>
tf12H == <<"1", "2", "H">>
tf16H == <<"1", "6", "H">>
tf1D == <<"1", "D">>
tf2D == <<"2", "D">>
tf3D == <<"3", "D">>
tf4D == <<"4", "D">>
tf7D == <<"7", "D">>
tf14D == <<"1", "4", "D">>

(***************************************************************************)
(* EQTrendFollowing: static configuration, src/model.py:294-303.           *)
(***************************************************************************)
EQOperatingTimeframes ==
    <<tf1Min, tf5Min, tf15Min, tf30Min, tf1H, tf2H, tf3H, tf4H,
      tf6H, tf8H, tf12H, tf16H, tf1D, tf2D, tf3D, tf7D, tf14D>>

\* the keys of lookback
EQLookback ==
    {tf1Min, tf3Min, tf5Min, tf15Min, tf30Min,
     tf1H, tf2H, tf3H, tf4H, tf6H, tf8H,
     tf12H, tf16H, tf1D, tf2D, tf3D, tf4D,
     tf7D, tf14D}

(***************************************************************************)
(* get_required_timeframes, src/model.py:356-412.                          *)
(***************************************************************************)
In(x, s) == \E n \in 1..Len(s) : s[n] = x

\* 370-371 and its copies: append unless in timeframes or in to_add
AddUnlessPresent(code, tfs, add) ==
    IF ~In(code, tfs) /\ ~In(code, add) THEN Append(add, code) ELSE add

\* Doubled with the factor forgotten
DoubledUnscaled(tf) ==
    Str(ParseInt(SelectSeq(tf, IsDigit))) \o FirstLetters(tf)

\* 400-402: the numeric value doubled, the unit kept
Doubled(tf) ==
    Str(ParseInt(SelectSeq(tf, IsDigit)) * 2) \o FirstLetters(tf)

\* 369-402: the body of the for loop, for one element of timeframes
Required(tf, tfs, add) ==
    IF tf = tf1Min THEN AddUnlessPresent(tf3Min, tfs, add)
    ELSE IF tf = tf3Min THEN AddUnlessPresent(tf5Min, tfs, add)
    ELSE IF tf = tf5Min THEN AddUnlessPresent(tf15Min, tfs, add)
    ELSE IF tf = tf30Min THEN AddUnlessPresent(tf1H, tfs, add)
    ELSE IF tf = tf12H \/ tf = tf16H THEN AddUnlessPresent(tf1D, tfs, add)
    ELSE IF tf = tf3D THEN AddUnlessPresent(tf7D, tfs, add)
    \* all other timeframes: appended without a membership test
    ELSE Append(add, Doubled(tf))

\* The well-formed codes the model draws lists from: a magnitude of the
\* lookback table followed by one of its units.
Magnitudes == {1, 2, 3, 4, 5, 6, 7, 8, 12, 14, 15, 16, 30}

Units == {<<"M", "i", "n">>, <<"H">>, <<"D">>}

\* the decimal numeral of n < 100, written out digit by digit
Numeral(n) ==
    IF n < 10 THEN <<DigitChars[n + 1]>>
    ELSE <<DigitChars[(n \div 10) + 1], DigitChars[(n % 10) + 1]>>

Code(mag, unit) == Numeral(mag) \o unit

\* The caller builds the list it will pass.
Build(mag, unit) ==
    /\ tfpc = "build"
    /\ Len(timeframes) < MaxList
    /\ timeframes' = Append(timeframes, Code(mag, unit))
    /\ UNCHANGED <<result, orig, to_add, k, tfpc, tfret>>
    /\ UNCHANGED runVars

\* The caller passes the model's own operating_timeframes.
BuildOwn ==
    /\ tfpc = "build"
    /\ timeframes = <<>>
    /\ timeframes' = EQOperatingTimeframes
    /\ UNCHANGED <<result, orig, to_add, k, tfpc, tfret>>
    /\ UNCHANGED runVars

\* 364: to_add = []
TFCall(res) ==
    /\ tfpc = "build"
    /\ result' = res
    /\ orig' = timeframes
    /\ to_add' = <<>>
    /\ k' = 0
    /\ tfpc' = (IF Len(timeframes) = 0 THEN "finish" ELSE "loop")
    /\ UNCHANGED <<timeframes, tfret>>
    /\ UNCHANGED runVars

\* 366-402: one iteration of the for loop
TFLoop ==
    /\ tfpc = "loop"
    /\ to_add' = Required(PyIndex(timeframes, k), timeframes, to_add)
    /\ k' = k + 1
    /\ tfpc' = (IF k + 1 < Len(timeframes) THEN "loop" ELSE "finish")
    /\ UNCHANGED <<timeframes, result, orig, tfret>>
    /\ UNCHANGED runVars

\* 405-412: amend in place and return nothing, or return a new list
TFFinish ==
    /\ tfpc = "finish"
    /\ IF ~result
       THEN /\ timeframes' = timeframes \o to_add
            /\ tfret' = <<>>
       ELSE /\ timeframes' = timeframes
            /\ tfret' = <<to_add>>
    /\ tfpc' = "done"
    /\ UNCHANGED <<result, orig, to_add, k>>
    /\ UNCHANGED runVars

TFIdle ==
    /\ timeframes = <<>>
    /\ result = FALSE
    /\ orig = <<>>
    /\ to_add = <<>>
    /\ k = 0
    /\ tfret = <<>>

RunIdle ==
    /\ timeframe = "1Min"
    /\ features = <<>>
    /\ i = 0
    /\ longs = Candidates
    /\ shorts = Candidates
    /\ outcome = "running"
    /\ emitted = <<>>

\* The crossover detector.
Init ==
    /\ RunIdle
    /\ pc = "feed"
    /\ TFIdle
    /\ tfpc = "idle"

Next ==
    \/ \E o \in Opens, f \in IndValues, sl \in IndValues : Feed(o, f, sl)
    \/ \E tf \in {"1Min", "5Min"} : RunCall(tf)
    \/ RunScan
    \/ RunEmit

Spec == Init /\ [][Next]_vars

\* The timeframe resolver.
InitTF ==
    /\ RunIdle
    /\ pc = "idle"
    /\ TFIdle
    /\ tfpc = "build"

NextTF ==
    \/ \E mag \in Magnitudes, unit \in Units : Build(mag, unit)
    \/ BuildOwn
    \/ \E res \in BOOLEAN : TFCall(res)
    \/ TFLoop
    \/ TFFinish

SpecTF == InitTF /\ [][NextTF]_vars

(***************************************************************************)
(* Properties of EMACrossTestingOnly.run (checked under Spec).             *)
(***************************************************************************)
\* run was called with an operating timeframe and has ended
RunEnded == pc = "done" /\ timeframe \in SeqToSet(EMAOperatingTimeframes)

BarDefined(n) == features[n][3] # None /\ features[n][4] # None

AllDefined == \A n \in 1..Len(features) : BarDefined(n)

\* slow > fast at bar n, slow < fast at the two bars before it (1-based n)
ShortCrossAt(n) ==
    /\ n >= 3
    /\ BarDefined(n) /\ BarDefined(n - 1) /\ BarDefined(n - 2)
    /\ features[n][4] > features[n][3]
    /\ features[n - 1][4] < features[n - 1][3]
    /\ features[n - 2][4] < features[n - 2][3]

\* slow < fast at bar n, slow > fast at the two bars before it (1-based n)
LongCrossAt(n) ==
    /\ n >= 3
    /\ BarDefined(n) /\ BarDefined(n - 1) /\ BarDefined(n - 2)
    /\ features[n][4] < features[n][3]
    /\ features[n - 1][4] > features[n - 1][3]
    /\ features[n - 2][4] > features[n - 2][3]

FinalBar == features[Len(features)]

\* run returned exactly one signal of this direction on the final bar, with
\* the single target half a percent away from the entry in direction sign
ReturnedSignal(direction, sign) ==
    /\ outcome = "Signal"
    /\ Len(emitted) = 1
    /\ emitted[1].direction = direction
    /\ emitted[1].entry_price = FinalBar[2]
    /\ Len(emitted[1].targets) = 1
    /\ emitted[1].targets[1][1] * 1000
         = FinalBar[2] * 1000 + sign * FinalBar[2] * 5
    /\ emitted[1].targets[1][2] = 100

\* C1: when all indicator values are defined and the final bar of a series
\* of at least 3 bars is a short cross, run returns a SHORT signal with the
\* final bar's open as entry and the single target (entry - 0.5%, 100),
\* whatever the history, also when no long cross was ever recorded.
C1_ShortCrossReturnsShort ==
    (RunEnded /\ AllDefined /\ ShortCrossAt(Len(features)))
        => ReturnedSignal("SHORT", 0 - 1)

\* C2: when the final bar is a long cross and no short candidate is
\* recorded, run returns exactly one LONG signal: entry price the final
\* bar's open, entry timestamp the final bar's, the single target
\* (entry x 1.005, 100), no stop price.
C2_LongCrossReturnsLong ==
    (RunEnded /\ LongCrossAt(Len(features)) /\ Len(shorts.time) = 0)
        => /\ ReturnedSignal("LONG", 1)
           /\ emitted[1].entry_ts = FinalBar[1] * 60
           /\ emitted[1].stop_price = <<>>

\* C3: when all indicator values are defined and the final bar is neither
\* a long nor a short cross, run completes normally and returns None,
\* whatever crosses the history holds.
C3_NoFinalCrossReturnsNone ==
    (RunEnded /\ AllDefined
        /\ ~LongCrossAt(Len(features)) /\ ~ShortCrossAt(Len(features)))
        => (outcome = "None" /\ emitted = <<>>)

\* C4: run never reaches the IndexError handler that calls sys.exit: the
\* last element of longs or shorts is only read from a non-empty list.
C4_NeverExitsProcess == outcome # "SystemExit"

\* C8: with fewer than 3 bars that have both indicators defined, run
\* records no candidate, returns None and raises no error.
C8_TooFewDefinedBars ==
    (RunEnded /\ Cardinality({n \in 1..Len(features) : BarDefined(n)}) < 3)
        => /\ outcome = "None"
           /\ longs = Candidates
           /\ shorts = Candidates
           /\ emitted = <<>>

\* C9: a candidate is recorded only for a bar at index >= 2 whose two
\* predecessors in time show the opposite relation; never at index 0 or 1
\* by comparing against bars from the end of the series.
C9_CandidatesFromPrecedingBars ==
    /\ \A c \in 1..Len(shorts.time) :
          \E n \in 3..Len(features) :
              features[n][1] = shorts.time[c] /\ ShortCrossAt(n)
    /\ \A c \in 1..Len(longs.time) :
          \E n \in 3..Len(features) :
              features[n][1] = longs.time[c] /\ LongCrossAt(n)

(***************************************************************************)
(* Properties of EQTrendFollowing.get_required_timeframes (checked under   *)
(* SpecTF).                                                                *)
(***************************************************************************)
NoDuplicates(s) == \A a, b \in 1..Len(s) : s[a] = s[b] => a = b

\* the required code of the code with this magnitude and unit: the table
\* of the specification, otherwise the magnitude doubled
Mapped(mag, unit) ==
    IF Code(mag, unit) = tf1Min THEN tf3Min
    ELSE IF Code(mag, unit) = tf3Min THEN tf5Min
    ELSE IF Code(mag, unit) = tf5Min THEN tf15Min
    ELSE IF Code(mag, unit) = tf30Min THEN tf1H
    ELSE IF Code(mag, unit) = tf12H THEN tf1D
    ELSE IF Code(mag, unit) = tf16H THEN tf1D
    ELSE IF Code(mag, unit) = tf3D THEN tf7D
    ELSE Code(2 * mag, unit)

RequiredOf(s) ==
    {Mapped(mag, unit) : <<mag, unit>> \in
        {mu \in Magnitudes \X Units : In(Code(mu[1], mu[2]), s)}}

\* C5: with result=True the returned list shares no element with the input,
\* holds no element twice, and the input is left unchanged.
C5_ResultDisjointAndDuplicateFree ==
    (tfpc = "done" /\ result)
        => /\ Len(tfret) = 1
           /\ \A n \in 1..Len(tfret[1]) : ~In(tfret[1][n], orig)
           /\ NoDuplicates(tfret[1])
           /\ timeframes = orig

\* C6: with result=False and a duplicate-free input, nothing is returned
\* and the list holds its original elements in order, then the new codes,
\* without duplicates: exactly the input united with its required codes.
C6_AmendedInPlaceExactly ==
    (tfpc = "done" /\ ~result /\ NoDuplicates(orig))
        => /\ tfret = <<>>
           /\ Len(timeframes) >= Len(orig)
           /\ SubSeq(timeframes, 1, Len(orig)) = orig
           /\ NoDuplicates(timeframes)
           /\ SeqToSet(timeframes) = SeqToSet(orig) \cup RequiredOf(orig)

\* C7: for a single code c, result=True returns [m(c)]: the table value for
\* 1Min, 3Min, 5Min, 30Min, 12H, 16H, 3D, otherwise the magnitude doubled
\* with the same unit.
C7_SingleCodeMapped ==
    \A mag \in Magnitudes, unit \in Units :
        (tfpc = "done" /\ result /\ orig = <<Code(mag, unit)>>)
            => tfret = << <<Mapped(mag, unit)>> >>

\* a doubled magnitude that takes one more digit: ["8H"] gives ["16H"]
C7_Witness ==
    /\ tfpc = "done"
    /\ result
    /\ orig = <<tf8H>>
    /\ tfret = << <<tf16H>> >>

\* C10: every code get_required_timeframes produces for the model's own
\* operating_timeframes, in either mode, is a key of its lookback table.
C10_RequiredHaveLookback ==
    (tfpc = "done" /\ orig = EQOperatingTimeframes)
        => /\ \A n \in 1..Len(timeframes) : timeframes[n] \in EQLookback
           /\ \A r \in 1..Len(tfret) :
                \A n \in 1..Len(tfret[r]) : tfret[r][n] \in EQLookback

====
